---- MODULE Spec2Model ----
(***************************************************************************)
(* Model of the CRD schema lifecycle reconciler                            *)
(* (pkg/k8s/apis/cilium.io/v2/register.go) and of the policy rule model    *)
(* (pkg/policy/api/rule.go).                                               *)
(*                                                                         *)
(* The specifications share the variables of the module:                   *)
(*   Spec      reconcilers calling createUpdateCRD against one store key   *)
(*   SpecLive  one reconciler under fair scheduling, other agents writing  *)
(*   SpecRace  two reconcilers racing for an absent descriptor             *)
(*   SpecStart CreateCustomResourceDefinitions calling kind after kind     *)
(*   SpecCancel one reconciler and a cancellation signal                   *)
(*   SpecNU    needsUpdate applied to bounded descriptors                  *)
(*   SpecRule  Rule.CreateDerivative run statement by statement on a heap  *)
(*   SpecShare two callers of CreateDerivative and later writes to the     *)
(*             rules they hold                                             *)
(***************************************************************************)
EXTENDS Integers, Sequences, FiniteSets, TLC

\* ------------------------------------------------------------------------
\* Bounds of the model
\* ------------------------------------------------------------------------

\* number of poll attempts that stand for the 60 s ceiling at 500 ms interval
MaxPolls == 2

\* invocations of createUpdateCRD, all reconcilers together
MaxCalls == 2

\* longest schema-version label, in characters, enumerated for needsUpdate
MaxLabelLen == 4

\* longest egress list of a rule
MaxEgress == 3

\* ------------------------------------------------------------------------
\* Version labels: strings are sequences of one-character strings
\* ------------------------------------------------------------------------

DigitSeq == <<"0", "1", "2", "3", "4", "5", "6", "7", "8", "9">>

Digits == {DigitSeq[i] : i \in 1..10}

Letters == {"a", "b", "c", "r", "v"}

DigitVal(c) == (CHOOSE i \in 1..10 : DigitSeq[i] = c) - 1

\* CustomResourceDefinitionSchemaVersion = "1.15"
CustomResourceDefinitionSchemaVersion == <<"1", ".", "1", "5">>

CustomResourceDefinitionSchemaVersionKey == "io.cilium.k8s.crd.schema.version"

\* strings.Split(s, "."): the pieces between the dots, empty pieces kept
RECURSIVE SplitDots(_)
SplitDots(s) ==
    IF \A i \in 1..Len(s) : s[i] # "."
    THEN <<s>>
    ELSE LET d == CHOOSE i \in 1..Len(s) :
                     s[i] = "." /\ \A j \in 1..(i - 1) : s[j] # "."
         IN  <<SubSeq(s, 1, d - 1)>> \o SplitDots(SubSeq(s, d + 1, Len(s)))

\* strconv.ParseInt of a piece made of decimal digits
RECURSIVE ParseInt(_)
ParseInt(piece) ==
    IF piece = <<>> THEN 0
    ELSE 10 * ParseInt(SubSeq(piece, 1, Len(piece) - 1))
         + DigitVal(piece[Len(piece)])

\* length of the longest prefix made of digits and dots
RECURSIVE NumericPrefixLen(_)
NumericPrefixLen(s) ==
    IF s = <<>> \/ s[1] \notin (Digits \cup {"."}) THEN 0
    ELSE 1 + NumericPrefixLen(Tail(s))

\* the numeric part of the version pattern: [0-9]+(\.[0-9]+)*
NumericOk(h) ==
    /\ h # <<>>
    /\ \A i \in 1..Len(SplitDots(h)) : SplitDots(h)[i] # <<>>

\* the pre-release part of the version pattern: empty, or an optional dash
\* and dot-separated non-empty pieces of letters, digits and dashes, the
\* part starting with a letter or a dash
PrereleaseOk(t) ==
    \/ t = <<>>
    \/ /\ t[1] \in (Letters \cup {"-"})
       /\ \A i \in 1..Len(t) : t[i] \in (Letters \cup Digits \cup {"-", "."})
       /\ \A i \in 1..Len(SplitDots(t)) : SplitDots(t)[i] # <<>>

PadSegments(segs) ==
    segs \o [i \in 1..(IF Len(segs) < 3 THEN 3 - Len(segs) ELSE 0) |-> 0]

\* version.NewVersion: ok is FALSE when the string is not a version
NewVersion(v) ==
    LET s == IF v # <<>> /\ v[1] = "v" THEN Tail(v) ELSE v
        n == NumericPrefixLen(s)
        h == SubSeq(s, 1, n)
        t == SubSeq(s, n + 1, Len(s))
    IN  IF NumericOk(h) /\ PrereleaseOk(t)
        THEN [ok |-> TRUE,
              segments |-> PadSegments([i \in 1..Len(SplitDots(h)) |->
                                           ParseInt(SplitDots(h)[i])]),
              pre |-> t # <<>>]
        ELSE [ok |-> FALSE, segments |-> <<>>, pre |-> FALSE]

AllZero(segs, from) == \A i \in from..Len(segs) : segs[i] = 0

\* Version.Compare on the segments, position by position
RECURSIVE CompareSegments(_, _, _)
CompareSegments(a, b, i) ==
    IF i > Len(a) /\ i > Len(b) THEN 0
    ELSE IF i > Len(a) THEN (IF AllZero(b, i) THEN 0 ELSE -1)
    ELSE IF i > Len(b) THEN (IF AllZero(a, i) THEN 0 ELSE 1)
    ELSE IF a[i] = b[i] THEN CompareSegments(a, b, i + 1)
    ELSE IF a[i] < b[i] THEN -1 ELSE 1

\* Version.Compare: equal segments are ordered by the pre-release part, a
\* version with a pre-release coming before the one without
Compare(x, y) ==
    IF x.segments = y.segments
    THEN IF x.pre = y.pre THEN 0 ELSE IF x.pre THEN -1 ELSE 1
    ELSE CompareSegments(x.segments, y.segments, 1)

LessThan(x, y) == Compare(x, y) < 0

\* init(): version.Must(version.NewVersion(CustomResourceDefinitionSchemaVersion))
comparableCRDSchemaVersion == NewVersion(CustomResourceDefinitionSchemaVersion)

\* ------------------------------------------------------------------------
\* Descriptors
\* ------------------------------------------------------------------------

\* a label map: a set of <<key, value>> pairs
LabelOf(v) == {<<CustomResourceDefinitionSchemaVersionKey, v>>}

HasKey(labels, k) == \E kv \in labels : kv[1] = k

Lookup(labels, k) == (CHOOSE kv \in labels : kv[1] = k)[2]

needsUpdateLessOrEqual(clusterCRD) ==
    IF ~clusterCRD.spec.validation THEN TRUE
    ELSE IF ~HasKey(clusterCRD.labels, CustomResourceDefinitionSchemaVersionKey)
    THEN TRUE
    ELSE LET clusterVersion ==
                 NewVersion(Lookup(clusterCRD.labels,
                                   CustomResourceDefinitionSchemaVersionKey))
         IN  ~clusterVersion.ok
             \/ Compare(clusterVersion, comparableCRDSchemaVersion) <= 0

needsUpdate(clusterCRD) ==
    IF ~clusterCRD.spec.validation THEN TRUE
    ELSE IF ~HasKey(clusterCRD.labels, CustomResourceDefinitionSchemaVersionKey)
    THEN TRUE
    ELSE LET clusterVersion ==
                 NewVersion(Lookup(clusterCRD.labels,
                                   CustomResourceDefinitionSchemaVersionKey))
         IN  ~clusterVersion.ok
             \/ LessThan(clusterVersion, comparableCRDSchemaVersion)

\* ------------------------------------------------------------------------
\* State
\* ------------------------------------------------------------------------

VARIABLES
    kind,        \* the resource kind the reconcilers of this run install
    store,       \* the store's object under the descriptor's identity key
    pc,          \* per reconciler: its position in createUpdateCRD
    clusterCRD,  \* per reconciler: the local clusterCRD
    err,         \* per reconciler: the local err
    attempts,    \* per reconciler: condition calls made by the running wait.Poll
    ret,         \* per reconciler: what the last createUpdateCRD call returned
    calls,       \* per reconciler: calls of createUpdateCRD started
    hist,        \* per reconciler: what the running call has done and seen
    nuCRD,       \* needsUpdate: the descriptor passed in
    nuResult,    \* needsUpdate: the value returned
    heap,        \* rule model: the Rule structs, by address
    arrays,      \* rule model: the backing arrays of the slices, by address
    rpc,         \* rule model, per caller: position in CreateDerivative
    idx,         \* rule model, per caller: index of the range loop over r.Egress
    newRule,     \* rule model, per caller: the local newRule (an address)
    result,      \* rule model, per caller: what CreateDerivative returned
    before,      \* rule model: the source rule's value when the calls began
    rdResult,    \* rule model: what RequiresDerivative returned
    mutated,     \* rule model: the rules written to by their holders
    ccrdPc,      \* startup: position in CreateCustomResourceDefinitions
    identityAllocationMode,  \* startup: option.Config.IdentityAllocationMode
    reconciled,  \* startup: the create*CRD calls made so far and their results
    ccrdRet,     \* startup: what CreateCustomResourceDefinitions returned
    cancelled    \* the process was sent a cancellation signal

recVars == <<kind, store, pc, clusterCRD, err, attempts, ret, calls, hist>>

nuVars == <<nuCRD, nuResult>>

ruleVars == <<heap, arrays, rpc, idx, newRule, result, before, rdResult, mutated>>

startVars == <<ccrdPc, identityAllocationMode, reconciled, ccrdRet, cancelled>>

vars == <<kind, store, pc, clusterCRD, err, attempts, ret, calls, hist,
          nuCRD, nuResult, heap, arrays, rpc, idx, newRule, result, before,
          rdResult, mutated, ccrdPc, identityAllocationMode, reconciled,
          ccrdRet, cancelled>>

\* ------------------------------------------------------------------------
\* The store and the registry's descriptors
\* ------------------------------------------------------------------------

Kinds == {"policy", "endpoint", "node", "identity"}

Procs == {1, 2}

\* errors are sequences of causes; nil is the empty sequence
Nil == <<>>

NotFound == <<"NotFound">>

AlreadyExists == <<"AlreadyExists">>

StoreErr == <<"StoreErr">>

ErrWaitTimeout == <<"ErrWaitTimeout">>

NoCRD == [labels |-> {}, spec |-> [names |-> "none", validation |-> FALSE]]

Absent == [present |-> FALSE, labels |-> {},
           spec |-> [names |-> "none", validation |-> FALSE], conds |-> <<>>]

Cond(t, s) == [type |-> t, status |-> s]

\* the status condition lists the store reports
CondLists ==
    { <<>>,
      <<Cond("NamesAccepted", "False")>>,
      <<Cond("NamesAccepted", "True"), Cond("Established", "True")>>,
      <<Cond("Established", "True"), Cond("NamesAccepted", "False")>>,
      <<Cond("NamesAccepted", "False"), Cond("Established", "True")>> }

\* the labels found on descriptors left in the store by other agent versions
StoreLabels ==
    { {}, LabelOf(<<"1", ".", "1", "4">>), LabelOf(<<"1", ".", "1", "5">>) }

createCNPCRD ==
    [labels |-> LabelOf(CustomResourceDefinitionSchemaVersion),
     spec |-> [names |-> "policy", validation |-> TRUE]]

createCEPCRD ==
    [labels |-> {}, spec |-> [names |-> "endpoint", validation |-> TRUE]]

createNodeCRD ==
    [labels |-> {}, spec |-> [names |-> "node", validation |-> FALSE]]

createIdentityCRD ==
    [labels |-> {}, spec |-> [names |-> "identity", validation |-> FALSE]]

\* the descriptor each create*CRD function passes to createUpdateCRD
Desired(k) ==
    CASE k = "policy" -> createCNPCRD
      [] k = "endpoint" -> createCEPCRD
      [] k = "node" -> createNodeCRD
      [] k = "identity" -> createIdentityCRD

Stored(crd, conds) ==
    [present |-> TRUE, labels |-> crd.labels, spec |-> crd.spec, conds |-> conds]

Fetched(obj) == [labels |-> obj.labels, spec |-> obj.spec]

\* ------------------------------------------------------------------------
\* createUpdateCRD: the decisions between two store calls
\* ------------------------------------------------------------------------

\* what the running call has done and seen so far
NoHist ==
    [creates |-> 0, updates |-> 0, deletes |-> 0, polls |-> 0,
     alreadyExists |-> FALSE, curSeen |-> FALSE, updated |-> FALSE,
     estSeen |-> FALSE, estCurSeen |-> FALSE, rejAt |-> 0, failAt |-> 0,
     failBy |-> Nil, waitRes |-> "none", quiet |-> FALSE, estFirst |-> FALSE,
     gets |-> 0, checks |-> 0, fresh |-> "none", delBy |-> Nil, conv |-> FALSE]

\* the range loop over crd.Status.Conditions in the acceptance poll's
\* condition: done as the condition function returns it, conflict when the
\* loop ended in the NamesAccepted case
ScanConditionsConflictWins(conds, i) ==
    IF \E j \in i..Len(conds) :
           conds[j].type = "NamesAccepted" /\ conds[j].status = "False"
    THEN [done |-> FALSE, conflict |-> TRUE]
    ELSE [done |-> \E j \in i..Len(conds) :
                      conds[j].type = "Established" /\ conds[j].status = "True",
          conflict |-> FALSE]

RECURSIVE ScanConditions(_, _)
ScanConditions(conds, i) ==
    IF i > Len(conds) THEN [done |-> FALSE, conflict |-> FALSE]
    ELSE IF conds[i].type = "Established" /\ conds[i].status = "True"
    THEN [done |-> TRUE, conflict |-> FALSE]
    ELSE IF conds[i].type = "NamesAccepted" /\ conds[i].status = "False"
    THEN [done |-> FALSE, conflict |-> TRUE]
    ELSE ScanConditions(conds, i + 1)

\* wait.Poll after one call of its condition, which returned (done, e), the
\* n-th call of this poll: an error ends the poll, done ends it with nil, the
\* ceiling ends it with ErrWaitTimeout, otherwise the condition runs again
PollCeilingAsDone(done, e, n) ==
    IF e # Nil THEN [res |-> "error", err |-> e]
    ELSE IF done \/ n >= MaxPolls THEN [res |-> "done", err |-> Nil]
    ELSE [res |-> "retry", err |-> Nil]

PollCeilingOneLate(done, e, n) ==
    IF e # Nil THEN [res |-> "error", err |-> e]
    ELSE IF done THEN [res |-> "done", err |-> Nil]
    ELSE IF n > MaxPolls THEN [res |-> "error", err |-> ErrWaitTimeout]
    ELSE [res |-> "retry", err |-> Nil]

Poll(done, e, n) ==
    IF e # Nil THEN [res |-> "error", err |-> e]
    ELSE IF done THEN [res |-> "done", err |-> Nil]
    ELSE IF n >= MaxPolls THEN [res |-> "error", err |-> ErrWaitTimeout]
    ELSE [res |-> "retry", err |-> Nil]

\* after Create returned e: return nil on AlreadyExists, return any other
\* error, go on to the version check otherwise
AfterCreateSurfacing(e) ==
    IF e # Nil THEN [act |-> "return", ret |-> e]
    ELSE [act |-> "check", ret |-> Nil]

AfterCreateWaiting(e) ==
    IF e = AlreadyExists THEN [act |-> "wait", ret |-> Nil]
    ELSE IF e # Nil THEN [act |-> "return", ret |-> e]
    ELSE [act |-> "check", ret |-> Nil]

AfterCreate(e) ==
    IF e = AlreadyExists THEN [act |-> "return", ret |-> Nil]
    ELSE IF e # Nil THEN [act |-> "return", ret |-> e]
    ELSE [act |-> "check", ret |-> Nil]

\* after the update poll returned e: return the error when it failed, go on
\* to the acceptance wait otherwise
AfterUpdateRollingBack(e) == IF e # Nil THEN "delete" ELSE "wait"

AfterUpdate(e) == IF e # Nil THEN "return" ELSE "wait"

\* after the acceptance poll returned e: roll back by delete when it failed
AfterWaitNoRollback(e) == "return"

AfterWait(e) == IF e # Nil THEN "delete" ELSE "return"

\* what createUpdateCRD returns after the rollback's Delete returned deleteErr
RollbackErrorDroppingOriginal(deleteErr, e) ==
    IF deleteErr # Nil THEN <<"unable to delete">> \o deleteErr ELSE e

RollbackError(deleteErr, e) ==
    IF deleteErr # Nil THEN <<"unable to delete">> \o deleteErr \o e ELSE e

\* ------------------------------------------------------------------------
\* createUpdateCRD: one action per store call, with the code that follows it
\* up to the next store call
\* ------------------------------------------------------------------------

\* TRUE when the list reports the Established condition with status True
HasEstablished(conds) ==
    \E i \in 1..Len(conds) :
        conds[i].type = "Established" /\ conds[i].status = "True"

\* TRUE when the list reports Established with status True and no
\* NamesAccepted with status False at an earlier place
EstablishedBeforeConflict(conds) ==
    \E i \in 1..Len(conds) :
        /\ conds[i].type = "Established" /\ conds[i].status = "True"
        /\ \A j \in 1..(i - 1) :
               ~(conds[j].type = "NamesAccepted" /\ conds[j].status = "False")

\* a step of q that changed the store: the other calls no longer run alone
\* (quiet marks a call that follows a successful call of the same reconciler,
\* began with the installed descriptor stored and Established, and has met
\* neither a store error nor a change of the store by anybody else)
Disturb(h, q) ==
    [p \in Procs |-> IF p # q THEN [h[p] EXCEPT !.quiet = FALSE, !.conv = FALSE]
                     ELSE h[p]]

\* TRUE when the list reports NamesAccepted with status False
HasConflict(conds) ==
    \E i \in 1..Len(conds) :
        conds[i].type = "NamesAccepted" /\ conds[i].status = "False"

\* the store is converged for the run's kind: the descriptor is present,
\* needsUpdate judges it current, and it is Established without a naming
\* conflict
Converged ==
    /\ store.present
    /\ ~needsUpdate(Fetched(store))
    /\ HasEstablished(store.conds) /\ ~HasConflict(store.conds)

\* the version check that guards the update poll
AfterCheckNoRefetch(crd) == IF needsUpdate(crd) THEN "upd_put" ELSE "wait"

AfterCheckAlwaysUpdating(crd) == "upd_get"

AfterCheck(crd) == IF needsUpdate(crd) THEN "upd_get" ELSE "wait"

\* a caller starts createUpdateCRD for the descriptor of the run's kind
Invoke(p) ==
    /\ pc[p] \in {"idle", "done"}
    /\ calls[1] + calls[2] < MaxCalls
    /\ pc' = [pc EXCEPT ![p] = "get"]
    /\ calls' = [calls EXCEPT ![p] = @ + 1]
    /\ clusterCRD' = [clusterCRD EXCEPT ![p] = NoCRD]
    /\ err' = [err EXCEPT ![p] = Nil]
    /\ attempts' = [attempts EXCEPT ![p] = 0]
    /\ ret' = [ret EXCEPT ![p] = Nil]
    /\ hist' = [hist EXCEPT ![p] =
                   [NoHist EXCEPT
                       !.quiet = /\ pc[p] = "done" /\ ret[p] = Nil
                                 /\ store.present
                                 /\ Fetched(store) = Desired(kind)
                                 /\ ScanConditions(store.conds, 1).done,
                       !.conv = Converged]]
    /\ UNCHANGED <<kind, store, nuVars, ruleVars, startVars>>

\* the first Get and the branch on its error
Get(p) ==
    /\ pc[p] = "get"
    /\ \E e \in (IF store.present THEN {Nil} ELSE {NotFound}) \cup {StoreErr} :
          /\ err' = [err EXCEPT ![p] = IF e = NotFound THEN e ELSE Nil]
          /\ clusterCRD' = [clusterCRD EXCEPT ![p] =
                               IF e = Nil THEN Fetched(store) ELSE NoCRD]
          /\ pc' = [pc EXCEPT ![p] =
                       IF e = NotFound THEN "create"
                       ELSE IF e # Nil THEN "done"
                       ELSE AfterCheck(Fetched(store))]
          /\ ret' = [ret EXCEPT ![p] = IF e = NotFound THEN Nil ELSE e]
          /\ hist' = [hist EXCEPT
                         ![p].quiet = @ /\ e # StoreErr,
                         ![p].conv = @ /\ e # StoreErr,
                         ![p].gets = @ + 1,
                         ![p].checks = IF e = Nil THEN @ + 1 ELSE @,
                         ![p].curSeen = e = Nil /\ ~needsUpdate(Fetched(store))]
    /\ attempts' = [attempts EXCEPT ![p] = 0]
    /\ UNCHANGED <<kind, store, calls, nuVars, ruleVars, startVars>>

\* Create and the branch on its error
Create(p) ==
    /\ pc[p] = "create"
    /\ \E e \in (IF store.present THEN {AlreadyExists} ELSE {Nil}) \cup {StoreErr} :
          LET a == AfterCreate(e)
              made == Desired(kind)
          IN  /\ store' = IF e = Nil THEN Stored(made, <<>>) ELSE store
              /\ err' = [err EXCEPT ![p] = Nil]
              /\ clusterCRD' = [clusterCRD EXCEPT ![p] =
                                   IF e = Nil THEN made ELSE NoCRD]
              /\ pc' = [pc EXCEPT ![p] =
                           IF a.act = "return" THEN "done"
                           ELSE IF a.act = "wait" THEN "wait"
                           ELSE AfterCheck(made)]
              /\ ret' = [ret EXCEPT ![p] = a.ret]
              /\ hist' = [(IF e = Nil THEN Disturb(hist, p) ELSE hist) EXCEPT
                             ![p].creates = @ + 1,
                             ![p].quiet = @ /\ e # StoreErr,
                             ![p].conv = @ /\ e # StoreErr,
                             ![p].checks = IF e = Nil THEN @ + 1 ELSE @,
                             ![p].alreadyExists = (e = AlreadyExists),
                             ![p].curSeen = e = Nil /\ ~needsUpdate(made)]
    /\ attempts' = [attempts EXCEPT ![p] = 0]
    /\ UNCHANGED <<kind, calls, nuVars, ruleVars, startVars>>

\* the update poll's condition up to its Update call: re-fetch and re-check
UpdateGet(p) ==
    /\ pc[p] = "upd_get"
    /\ \E e \in (IF store.present THEN {Nil} ELSE {NotFound}) \cup {StoreErr} :
          LET n == attempts[p] + 1
              stale == e = Nil /\ needsUpdate(Fetched(store))
              r == Poll(e = Nil, e, n)
          IN  /\ attempts' = [attempts EXCEPT ![p] =
                                 IF stale \/ r.res = "retry" THEN n ELSE 0]
              /\ err' = [err EXCEPT ![p] = Nil]
              /\ clusterCRD' = [clusterCRD EXCEPT ![p] =
                                   IF stale
                                   THEN [Fetched(store) EXCEPT
                                            !.labels = Desired(kind).labels,
                                            !.spec = Desired(kind).spec]
                                   ELSE IF r.res = "done" THEN Fetched(store)
                                   ELSE NoCRD]
              /\ pc' = [pc EXCEPT ![p] =
                           IF stale THEN "upd_put"
                           ELSE IF r.res = "retry" THEN "upd_get"
                           ELSE IF AfterUpdate(r.err) = "return" THEN "done"
                           ELSE AfterUpdate(r.err)]
              /\ ret' = [ret EXCEPT ![p] =
                            IF ~stale /\ r.res = "error" THEN r.err ELSE Nil]
              /\ hist' = [hist EXCEPT
                             ![p].quiet = @ /\ e # StoreErr,
                             ![p].conv = @ /\ e # StoreErr,
                             ![p].gets = @ + 1,
                             ![p].checks = IF e = Nil THEN @ + 1 ELSE @,
                             ![p].fresh = IF stale THEN "stale"
                                          ELSE IF e = Nil THEN "current"
                                          ELSE "failed",
                             ![p].failAt = IF ~stale /\ r.res = "error" THEN n ELSE @,
                             ![p].failBy = IF ~stale /\ r.res = "error" THEN e ELSE @,
                             ![p].curSeen = @ \/ (e = Nil /\ ~stale)]
    /\ UNCHANGED <<kind, store, calls, nuVars, ruleVars, startVars>>

\* the Update call of the update poll's condition and the poll's verdict
UpdatePut(p) ==
    /\ pc[p] = "upd_put"
    /\ \E e \in (IF store.present THEN {Nil} ELSE {NotFound}) \cup {StoreErr} :
          LET r == Poll(e = Nil, e, attempts[p])
          IN  /\ store' = IF e = Nil
                          THEN [store EXCEPT !.labels = clusterCRD[p].labels,
                                             !.spec = clusterCRD[p].spec]
                          ELSE store
              /\ err' = [err EXCEPT ![p] = Nil]
              /\ clusterCRD' = [clusterCRD EXCEPT ![p] =
                                   IF r.res = "error" THEN NoCRD ELSE @]
              /\ pc' = [pc EXCEPT ![p] =
                           IF r.res = "retry" THEN "upd_get"
                           ELSE IF AfterUpdate(r.err) = "return" THEN "done"
                           ELSE AfterUpdate(r.err)]
              /\ attempts' = [attempts EXCEPT ![p] =
                                 IF r.res = "retry" THEN @ ELSE 0]
              /\ ret' = [ret EXCEPT ![p] =
                            IF r.res = "error" THEN r.err ELSE Nil]
              /\ hist' = [(IF store' # store THEN Disturb(hist, p) ELSE hist) EXCEPT
                             ![p].updates = @ + 1,
                             ![p].quiet = @ /\ e # StoreErr,
                             ![p].conv = @ /\ e # StoreErr,
                             ![p].failAt = IF r.res = "error" THEN attempts[p] ELSE @,
                             ![p].failBy = IF r.res = "error" THEN e ELSE @,
                             ![p].updated = @ \/ e = Nil]
    /\ UNCHANGED <<kind, calls, nuVars, ruleVars, startVars>>

\* one call of the acceptance poll's condition and the poll's verdict
WaitGet(p) ==
    /\ pc[p] = "wait"
    /\ \E e \in (IF store.present THEN {Nil} ELSE {NotFound}) \cup {StoreErr} :
          LET n == attempts[p] + 1
              sc == IF e = Nil THEN ScanConditions(store.conds, 1)
                    ELSE [done |-> FALSE, conflict |-> FALSE]
              r == Poll(sc.done, e, n)
              next == IF r.res = "retry" THEN "wait" ELSE AfterWait(r.err)
          IN  /\ attempts' = [attempts EXCEPT ![p] =
                                 IF r.res = "retry" THEN n ELSE 0]
              /\ err' = [err EXCEPT ![p] =
                            IF next = "delete" THEN r.err ELSE Nil]
              /\ clusterCRD' = [clusterCRD EXCEPT ![p] =
                                   IF next = "return" THEN NoCRD ELSE @]
              /\ pc' = [pc EXCEPT ![p] =
                           IF next = "return" THEN "done" ELSE next]
              /\ ret' = [ret EXCEPT ![p] =
                            IF next = "return" THEN r.err ELSE Nil]
              /\ hist' = [hist EXCEPT
                             ![p].polls = @ + 1,
                             ![p].gets = @ + 1,
                             ![p].quiet = @ /\ e # StoreErr,
                             ![p].conv = @ /\ e # StoreErr,
                             ![p].failAt = IF r.res = "error" THEN n ELSE @,
                             ![p].failBy = IF r.res = "error" THEN e ELSE @,
                             ![p].estSeen =
                                 @ \/ (e = Nil /\ HasEstablished(store.conds)),
                             ![p].estFirst =
                                 @ \/ (e = Nil /\ EstablishedBeforeConflict(store.conds)),
                             ![p].estCurSeen =
                                 @ \/ (/\ e = Nil
                                       /\ HasEstablished(store.conds)
                                       /\ ~needsUpdate(Fetched(store))),
                             ![p].rejAt = IF @ = 0 /\ sc.conflict
                                          THEN hist[p].polls + 1 ELSE @,
                             ![p].waitRes = IF r.res = "done" THEN "ok"
                                            ELSE IF r.res = "error" THEN "fail"
                                            ELSE @]
    /\ UNCHANGED <<kind, store, calls, nuVars, ruleVars, startVars>>

\* the rollback: one Delete, and the error returned after it
Delete(p) ==
    /\ pc[p] = "delete"
    /\ \E deleteErr \in (IF store.present THEN {Nil} ELSE {NotFound}) \cup {StoreErr} :
          /\ store' = IF deleteErr = Nil THEN Absent ELSE store
          /\ ret' = [ret EXCEPT ![p] = RollbackError(deleteErr, err[p])]
          /\ hist' = [(IF deleteErr = Nil THEN Disturb(hist, p) ELSE hist) EXCEPT
                         ![p].deletes = @ + 1,
                         ![p].delBy = deleteErr]
    /\ pc' = [pc EXCEPT ![p] = "done"]
    /\ err' = [err EXCEPT ![p] = Nil]
    /\ clusterCRD' = [clusterCRD EXCEPT ![p] = NoCRD]
    /\ UNCHANGED <<kind, attempts, calls, nuVars, ruleVars, startVars>>

\* the store's own controller rewrites the status conditions of the object
SetConditions ==
    /\ store.present
    /\ \E cs \in CondLists \ {store.conds} :
          store' = [store EXCEPT !.conds = cs]
    /\ hist' = [p \in Procs |-> [hist[p] EXCEPT !.quiet = FALSE, !.conv = FALSE]]
    /\ UNCHANGED <<kind, pc, clusterCRD, err, attempts, ret, calls, nuVars, ruleVars, startVars>>

\* ------------------------------------------------------------------------
\* Specification of the reconcilers
\* ------------------------------------------------------------------------

\* the reconcilers at rest, before any call
RecIdle ==
    /\ pc = [p \in Procs |-> "idle"]
    /\ clusterCRD = [p \in Procs |-> NoCRD]
    /\ err = [p \in Procs |-> Nil]
    /\ attempts = [p \in Procs |-> 0]
    /\ ret = [p \in Procs |-> Nil]
    /\ calls = [p \in Procs |-> 0]
    /\ hist = [p \in Procs |-> NoHist]

NUIdle == nuCRD = NoCRD /\ nuResult = "unset"

\* no startup sequence runs and no signal was sent
StartIdle ==
    /\ ccrdPc = "off"
    /\ identityAllocationMode = "crd"
    /\ reconciled = <<>>
    /\ ccrdRet = Nil
    /\ cancelled = FALSE

RuleIdle ==
    /\ heap = <<>>
    /\ arrays = <<>>
    /\ rpc = [c \in {1, 2} |-> "off"]
    /\ idx = [c \in {1, 2} |-> 0]
    /\ newRule = [c \in {1, 2} |-> 0]
    /\ result = [c \in {1, 2} |-> [rule |-> 0, err |-> Nil]]
    /\ before = <<>>
    /\ rdResult = "unset"
    /\ mutated = {}

\* the store holds nothing, or a descriptor some agent version left there
Init ==
    /\ kind \in Kinds
    /\ store \in {Absent} \cup
                 {Stored([labels |-> l, spec |-> [names |-> kind, validation |-> v]], cs) :
                      l \in StoreLabels, v \in BOOLEAN, cs \in CondLists}
    /\ RecIdle
    /\ StartIdle
    /\ NUIdle
    /\ RuleIdle

Next ==
    \/ \E p \in Procs : Invoke(p)
    \/ \E p \in Procs : Get(p)
    \/ \E p \in Procs : Create(p)
    \/ \E p \in Procs : UpdateGet(p)
    \/ \E p \in Procs : UpdatePut(p)
    \/ \E p \in Procs : WaitGet(p)
    \/ \E p \in Procs : Delete(p)
    \/ SetConditions

Spec == Init /\ [][Next]_vars

\* ------------------------------------------------------------------------
\* Properties of createUpdateCRD
\* ------------------------------------------------------------------------

Returned(p) == pc[p] = "done"

\* TRUE when the sequence t occurs in s as a run of adjacent elements
Contains(s, t) ==
    \E i \in 0..(Len(s) - Len(t)) : SubSeq(s, i + 1, i + Len(t)) = t

\* C1 (as stated): every call that returns nil has observed, in one of its
\* own status polls, a stored descriptor that is Established and that
\* needsUpdate judges current.
C1_NilOnlyAfterCurrentEstablished ==
    \A p \in Procs :
        Returned(p) /\ ret[p] = Nil => hist[p].estCurSeen

\* C1 (amended): every call that returns nil either had its Create answered
\* with AlreadyExists, or observed Established=true in one of its own status
\* polls after it had fetched or created a descriptor that needsUpdate judged
\* current or had an Update of the labels and specification accepted.
C1_NilOnlyAfterAlreadyExistsOrEstablished ==
    \A p \in Procs :
        Returned(p) /\ ret[p] = Nil =>
            \/ hist[p].alreadyExists
            \/ /\ hist[p].estSeen
               /\ hist[p].waitRes = "ok"
               /\ hist[p].curSeen \/ hist[p].updated

C1_Witness ==
    \E p \in Procs :
        /\ Returned(p) /\ ret[p] = Nil
        /\ ~hist[p].alreadyExists
        /\ hist[p].estSeen /\ hist[p].updated /\ ~hist[p].estCurSeen

\* C2: a reconciler whose Create is answered with AlreadyExists returns nil;
\* AlreadyExists is never the error of the call.
C2_AlreadyExistsReturnsNil ==
    \A p \in Procs :
        /\ hist[p].alreadyExists => Returned(p) /\ ret[p] = Nil
        /\ Returned(p) => ret[p] # AlreadyExists

C2_Witness ==
    \E p, q \in Procs :
        /\ p # q
        /\ hist[p].creates = 1 /\ ~hist[p].alreadyExists
        /\ hist[q].creates = 1 /\ hist[q].alreadyExists
        /\ Returned(q) /\ ret[q] = Nil

\* C3 (as stated): a reconciler whose Create is answered with AlreadyExists
\* polls the status conditions before it returns, and returns only once the
\* acceptance wait has succeeded or failed.
C3_AlreadyExistsThenAcceptanceWait ==
    \A p \in Procs :
        hist[p].alreadyExists /\ Returned(p) =>
            hist[p].polls >= 1 /\ hist[p].waitRes \in {"ok", "fail"}

\* C3 (amended): a reconciler whose Create is answered with AlreadyExists
\* returns nil at once: it makes no status poll and no update or delete in
\* that call, and never enters the acceptance wait.
C3_AlreadyExistsReturnsAtOnce ==
    \A p \in Procs :
        hist[p].alreadyExists =>
            /\ Returned(p) /\ ret[p] = Nil
            /\ hist[p].polls = 0 /\ hist[p].waitRes = "none"
            /\ hist[p].updates = 0 /\ hist[p].deletes = 0

C3_Witness ==
    \E p \in Procs :
        /\ hist[p].alreadyExists /\ Returned(p)
        /\ hist[p].polls = 0
        /\ store.present /\ ~HasEstablished(store.conds)

\* C4: the first status poll that observes NamesAccepted=false ends the
\* acceptance wait: no further status poll is made and the call returns a
\* non-nil error.
C4_ConflictEndsWait ==
    \A p \in Procs :
        hist[p].rejAt > 0 =>
            /\ hist[p].polls = hist[p].rejAt
            /\ Returned(p) => ret[p] # Nil

\* C5: a call that follows a successful call of the same reconciler, made
\* when the store holds the descriptor the reconciler installs with
\* Established=true and while nobody else changes the store, issues no
\* create, no update and no delete, for every resource kind.
C5_SecondCallIssuesNoWrites ==
    \A p \in Procs :
        hist[p].quiet =>
            hist[p].creates = 0 /\ hist[p].updates = 0 /\ hist[p].deletes = 0

\* C6: a poll never ends on a store error before its ceiling: a poll that
\* ended with the error of a get or an update made its last attempt at the
\* ceiling.
C6_StoreErrorRetriedUntilCeiling ==
    \A p \in Procs :
        hist[p].failBy # Nil => hist[p].failAt = MaxPolls

\* C7: a failed acceptance wait is followed by exactly one delete, never a
\* second one, and by a non-nil error; a successful acceptance wait is
\* followed by no delete.
C7_RollbackExactlyOnce ==
    \A p \in Procs :
        /\ hist[p].deletes <= 1
        /\ hist[p].waitRes = "fail" => pc[p] \in {"delete", "done"}
        /\ hist[p].waitRes = "fail" /\ Returned(p) =>
               hist[p].deletes = 1 /\ ret[p] # Nil
        /\ hist[p].waitRes = "ok" => hist[p].deletes = 0 /\ Returned(p)

C7_Witness ==
    \E p \in Procs :
        /\ hist[p].waitRes = "fail" /\ Returned(p)
        /\ hist[p].deletes = 1
        /\ ret[p] = <<"unable to delete">> \o StoreErr \o ErrWaitTimeout

\* C13 (as stated): a status poll of the acceptance wait that observes
\* Established=true makes the call succeed, whatever the other reported
\* conditions are and in whatever order they are listed: the call makes no
\* further poll, issues no delete and returns nil.
C13_EstablishedEndsWait ==
    \A p \in Procs :
        hist[p].estSeen =>
            /\ Returned(p) /\ ret[p] = Nil
            /\ hist[p].waitRes = "ok"
            /\ hist[p].deletes = 0

\* C13 (amended): a status poll of the acceptance wait whose condition list
\* reports Established=true with no NamesAccepted=false listed before it
\* makes the call succeed: no further poll, no delete, nil returned; and the
\* acceptance wait succeeds on no other poll, so a list that reports
\* NamesAccepted=false before Established=true does not end it.
C13_EstablishedFirstEndsWait ==
    \A p \in Procs :
        /\ hist[p].estFirst =>
               /\ Returned(p) /\ ret[p] = Nil
               /\ hist[p].waitRes = "ok"
               /\ hist[p].deletes = 0
        /\ hist[p].waitRes = "ok" => hist[p].estFirst

C13_Witness ==
    \E p \in Procs :
        /\ Returned(p) /\ ret[p] = Nil
        /\ hist[p].estFirst /\ hist[p].polls = 1
        /\ store.conds = <<Cond("Established", "True"), Cond("NamesAccepted", "False")>>

\* C14: no update is submitted on the strength of the initial fetch alone:
\* every update call of a reconciler is preceded, as that reconciler's last
\* store call, by a fresh get of the update poll whose result needsUpdate
\* judged as needing update; and when the fresh get shows the descriptor
\* current, no update is submitted and the reconciler goes on to the
\* acceptance wait.
C14_UpdateOnlyAfterFreshStaleGet ==
    [][\A p \in Procs :
          /\ hist'[p].updates > hist[p].updates =>
                 /\ pc[p] = "upd_put"
                 /\ hist[p].fresh = "stale"
          /\ pc'[p] = "upd_put" /\ pc[p] # "upd_put" =>
                 /\ pc[p] = "upd_get"
                 /\ hist'[p].gets = hist[p].gets + 1
                 /\ store.present /\ needsUpdate(Fetched(store))
          /\ pc[p] = "upd_get" /\ hist'[p].fresh = "current" =>
                 /\ store.present /\ ~needsUpdate(Fetched(store))
                 /\ pc'[p] = "wait"
                 /\ hist'[p].updates = hist[p].updates
                 /\ store' = store]_vars

C14_Witness ==
    \E p, q \in Procs :
        /\ p # q
        /\ hist[q].updated
        /\ hist[p].fresh = "current" /\ hist[p].updates = 0
        /\ hist[p].checks = 2 /\ hist[p].gets = 2
        /\ pc[p] = "wait"

\* C15: for every resource kind, once a reconciler has had its desired
\* descriptor accepted by the store, by create or by update, the descriptor
\* the store then holds is current: needsUpdate on it returns false.
C15_SubmittedDescriptorIsCurrent ==
    [][\A p \in Procs :
          \/ pc[p] = "create" /\ pc'[p] \in {"upd_get", "wait"}
          \/ pc[p] = "upd_put" /\ pc'[p] = "wait"
          => ~needsUpdate(Fetched(store'))]_vars

\* C18: when the update poll fails, the call returns that error at once: it
\* makes no status poll and no delete, and the step that failed leaves the
\* store as it was; a delete is issued only after a failed acceptance wait.
C18_UpdateFailureReturnsAtOnce ==
    [][\A p \in Procs :
          /\ hist'[p].failAt > 0 /\ hist'[p].waitRes = "none" =>
                 /\ pc'[p] = "done"
                 /\ ret'[p] = hist'[p].failBy /\ ret'[p] # Nil
                 /\ hist'[p].polls = 0 /\ hist'[p].deletes = 0
                 /\ hist[p].failAt = 0 => store' = store
          /\ hist'[p].deletes > 0 => hist'[p].waitRes = "fail"]_vars

C18_Witness ==
    \E p \in Procs :
        /\ Returned(p) /\ ret[p] = StoreErr
        /\ hist[p].failAt > 0 /\ hist[p].waitRes = "none"
        /\ hist[p].updates = 1 /\ ~hist[p].updated
        /\ store.present /\ needsUpdate(Fetched(store))

\* C19 (as stated): a call made when the store is converged, and left alone
\* by the store and by everybody else, performs exactly one get and one
\* version check and returns without any create, update or delete.
C19_ConvergedCallOneGet ==
    \A p \in Procs :
        hist[p].conv /\ Returned(p) =>
            /\ hist[p].gets = 1 /\ hist[p].checks = 1
            /\ hist[p].creates = 0 /\ hist[p].updates = 0 /\ hist[p].deletes = 0

\* C19 (amended): a call made when the store is converged, and left alone by
\* the store and by everybody else, issues no create, update or delete and
\* makes one version check; it performs exactly two gets before it returns
\* nil, the initial fetch and the one status poll of the acceptance wait.
C19_ConvergedCallTwoGets ==
    \A p \in Procs :
        hist[p].conv =>
            /\ hist[p].creates = 0 /\ hist[p].updates = 0 /\ hist[p].deletes = 0
            /\ hist[p].checks <= 1 /\ hist[p].gets <= 2
            /\ Returned(p) =>
                   /\ ret[p] = Nil
                   /\ hist[p].checks = 1
                   /\ hist[p].gets = 2 /\ hist[p].polls = 1

C19_Witness ==
    \E p \in Procs :
        /\ hist[p].conv /\ Returned(p)
        /\ hist[p].gets = 2 /\ hist[p].polls = 1
        /\ calls[p] = 1

\* the failure that ended the acceptance wait of the call of p: the store
\* error of its last status poll, or the timeout of the poll
OriginalFailure(p) ==
    IF hist[p].failBy # Nil THEN hist[p].failBy ELSE ErrWaitTimeout

\* C20: when the rollback has run, the returned error carries the original
\* failure of the acceptance wait: unchanged when the delete succeeded, and
\* combined with the delete's failure in one error when the delete failed.
C20_RollbackKeepsOriginalError ==
    \A p \in Procs :
        Returned(p) /\ hist[p].deletes = 1 =>
            IF hist[p].delBy = Nil
            THEN ret[p] = OriginalFailure(p)
            ELSE /\ Contains(ret[p], hist[p].delBy)
                 /\ Contains(ret[p], OriginalFailure(p))
                 /\ Len(ret[p]) > Len(hist[p].delBy) + Len(OriginalFailure(p)) - 1

C20_Witness ==
    \E p \in Procs :
        /\ Returned(p) /\ hist[p].deletes = 1
        /\ hist[p].delBy = NotFound
        /\ hist[p].failBy = Nil
        /\ Contains(ret[p], ErrWaitTimeout) /\ Contains(ret[p], NotFound)

\* ------------------------------------------------------------------------
\* One reconciler under fair scheduling, the other agents as environment
\* ------------------------------------------------------------------------

\* one step of the running call of p: a store call that returns, or a tick of
\* the poll timer followed by the call of the poll's condition
Step(p) ==
    \/ Get(p)
    \/ Create(p)
    \/ UpdateGet(p)
    \/ UpdatePut(p)
    \/ WaitGet(p)
    \/ Delete(p)

\* another agent writes the descriptor: it deletes it in a rollback, creates
\* it, or updates its labels and specification
OtherAgent ==
    /\ \/ store.present /\ store' = Absent
       \/ ~store.present /\ store' = Stored(Desired(kind), <<>>)
       \/ /\ store.present /\ Fetched(store) # Desired(kind)
          /\ store' = [store EXCEPT !.labels = Desired(kind).labels,
                                    !.spec = Desired(kind).spec]
    /\ hist' = Disturb(hist, 2)
    /\ UNCHANGED <<kind, pc, clusterCRD, err, attempts, ret, calls, nuVars, ruleVars, startVars>>

NextLive ==
    \/ Invoke(1)
    \/ Step(1)
    \/ SetConditions
    \/ OtherAgent

\* the kinds whose desired descriptor carries no schema-version label: a
\* descriptor of such a kind never stops needing update, whoever wrote it
InitLive ==
    /\ kind \in Kinds \ {"policy"}
    /\ store \in {Absent} \cup
                 {Stored([labels |-> {}, spec |-> [names |-> kind, validation |-> v]], cs) :
                      v \in BOOLEAN, cs \in CondLists}
    /\ RecIdle
    /\ StartIdle
    /\ NUIdle
    /\ RuleIdle

\* a started call keeps running: its goroutine is scheduled, every store call
\* returns, and the timer of wait.Poll keeps ticking
SpecLive == InitLive /\ [][NextLive]_vars /\ WF_vars(Step(1))

\* C16: every call of createUpdateCRD terminates, whatever the store reports
\* and however often it is changed: each of the two polls calls its condition
\* at most as often as the ceiling allows, and an acceptance wait that
\* reaches its ceiling without a store error and without having observed
\* Established=true ends with the timeout error, which the call returns
\* after the rollback.
C16_EveryCallTerminates ==
    /\ [](/\ attempts[1] <= MaxPolls
          /\ hist[1].polls <= MaxPolls
          /\ hist[1].gets - hist[1].polls <= 1 + MaxPolls)
    /\ [](hist[1].polls = MaxPolls /\ hist[1].failBy = Nil /\ ~hist[1].estSeen =>
              /\ hist[1].waitRes = "fail"
              /\ pc[1] = "delete" => err[1] = ErrWaitTimeout
              /\ Returned(1) => Contains(ret[1], ErrWaitTimeout))
    /\ (pc[1] = "get") ~> Returned(1)

C16_Witness ==
    /\ Returned(1) /\ ret[1] = ErrWaitTimeout
    /\ hist[1].polls = MaxPolls /\ ~hist[1].estSeen
    /\ hist[1].updates = 1 /\ hist[1].deletes = 1
    /\ kind = "node"

\* ------------------------------------------------------------------------
\* Two reconcilers racing for an absent descriptor against a well-behaved store
\* ------------------------------------------------------------------------

\* both agents start, each with one call, against a store without the
\* descriptor
InitRace ==
    /\ kind \in Kinds
    /\ store = Absent
    /\ RecIdle
    /\ StartIdle
    /\ NUIdle
    /\ RuleIdle

\* the store call of this step returned no transient error
NoTransientError(p) ==
    /\ ~Contains(ret'[p], StoreErr)
    /\ err'[p] # StoreErr

\* the store marks the descriptor Established before an acceptance wait
\* reaches its ceiling: the last status poll the ceiling allows finds it
EstablishedInTime(p) ==
    pc[p] = "wait" /\ attempts[p] + 1 >= MaxPolls => HasEstablished(store.conds)

RaceInvoke(p) == Invoke(p) /\ calls[p] = 0

RaceStep(p) == Step(p) /\ NoTransientError(p) /\ EstablishedInTime(p)

\* the store's controller reports no naming conflict
Establish == SetConditions /\ ~HasConflict(store'.conds)

NextRace ==
    \/ \E p \in Procs : RaceInvoke(p)
    \/ \E p \in Procs : RaceStep(p)
    \/ Establish

SpecRace == InitRace /\ [][NextRace]_vars

\* the reconcilers whose Create call succeeded
Creators == {p \in Procs : hist[p].creates = 1 /\ ~hist[p].alreadyExists}

IdentityAllocationModeCRD == "crd"

IdentityAllocationModes == {IdentityAllocationModeCRD, "kvstore"}

\* the order in which the function names the kinds
KindOrder == <<"policy", "endpoint", "node", "identity">>

\* what the store may hold under the identity key of kind k
KeyStates(k) ==
    {Absent} \cup
    {Stored([labels |-> l, spec |-> [names |-> k, validation |-> v]], cs) :
         l \in StoreLabels, v \in BOOLEAN, cs \in CondLists}

\* after the create*CRD call of kind k returned e: return the error, go on
\* to the next kind, or return nil after the last one
AfterKindIgnoringError(k, e, mode) ==
    IF k = "policy" THEN "endpoint"
    ELSE IF k = "endpoint" THEN "node"
    ELSE IF k = "node" /\ mode = IdentityAllocationModeCRD THEN "identity"
    ELSE "return"

AfterKind(k, e, mode) ==
    IF e # Nil THEN "return"
    ELSE IF k = "policy" THEN "endpoint"
    ELSE IF k = "endpoint" THEN "node"
    ELSE IF k = "node" /\ mode = IdentityAllocationModeCRD THEN "identity"
    ELSE "return"

\* the function is entered, about to call createCNPCRD
InitStart ==
    /\ kind = "policy"
    /\ store \in KeyStates("policy")
    /\ RecIdle
    /\ NUIdle
    /\ RuleIdle
    /\ ccrdPc = "policy"
    /\ identityAllocationMode \in IdentityAllocationModes
    /\ reconciled = <<>>
    /\ ccrdRet = Nil
    /\ cancelled = FALSE

\* the create*CRD function of the kind at hand builds its descriptor and
\* calls createUpdateCRD
CallCreateCRD ==
    /\ ccrdPc \in Kinds
    /\ pc[1] = "idle"
    /\ pc' = [pc EXCEPT ![1] = "get"]
    /\ clusterCRD' = [clusterCRD EXCEPT ![1] = NoCRD]
    /\ err' = [err EXCEPT ![1] = Nil]
    /\ attempts' = [attempts EXCEPT ![1] = 0]
    /\ ret' = [ret EXCEPT ![1] = Nil]
    /\ hist' = [hist EXCEPT ![1] = NoHist]
    /\ reconciled' = Append(reconciled, [kind |-> ccrdPc, done |-> FALSE, ret |-> Nil])
    /\ UNCHANGED <<kind, store, calls, nuVars, ruleVars, ccrdPc,
                   identityAllocationMode, ccrdRet, cancelled>>

\* the call returned: the if err != nil that follows it, and the step to the
\* next kind, whose identity key holds whatever was left there
ReturnCreateCRD ==
    /\ ccrdPc \in Kinds
    /\ pc[1] = "done"
    /\ LET next == AfterKind(ccrdPc, ret[1], identityAllocationMode)
       IN  /\ ccrdPc' = IF next = "return" THEN "returned" ELSE next
           /\ ccrdRet' = IF next = "return" THEN ret[1] ELSE Nil
           /\ kind' = IF next = "return" THEN kind ELSE next
           /\ store' \in (IF next = "return" THEN {store} ELSE KeyStates(next))
    /\ pc' = [pc EXCEPT ![1] = "idle"]
    /\ ret' = [ret EXCEPT ![1] = Nil]
    /\ hist' = [hist EXCEPT ![1] = NoHist]
    /\ reconciled' = [reconciled EXCEPT ![Len(reconciled)] =
                          [@ EXCEPT !.done = TRUE, !.ret = ret[1]]]
    /\ UNCHANGED <<clusterCRD, err, attempts, calls, nuVars, ruleVars,
                   identityAllocationMode, cancelled>>

NextStart ==
    \/ CallCreateCRD
    \/ Step(1)
    \/ SetConditions
    \/ ReturnCreateCRD

SpecStart == InitStart /\ [][NextStart]_vars

\* C21: CreateCustomResourceDefinitions calls the reconciler for policy,
\* endpoint, node and identity in this order, each kind at most once and
\* identity only in identity allocation mode CRD; a kind is reached only when
\* every kind before it returned nil, and the function returns the error of
\* the first kind that failed, or nil after the last kind.
C21_FixedOrderStopAtFirstError ==
    /\ Len(reconciled) <= Len(KindOrder)
    /\ \A i \in 1..Len(reconciled) :
           /\ reconciled[i].kind = KindOrder[i]
           /\ reconciled[i].kind = "identity" =>
                  identityAllocationMode = IdentityAllocationModeCRD
           /\ i < Len(reconciled) => reconciled[i].done /\ reconciled[i].ret = Nil
    /\ ccrdPc = "returned" =>
           /\ reconciled # <<>>
           /\ reconciled[Len(reconciled)].done
           /\ ccrdRet = reconciled[Len(reconciled)].ret
           /\ ccrdRet = Nil =>
                  Len(reconciled) =
                      IF identityAllocationMode = IdentityAllocationModeCRD
                      THEN 4 ELSE 3

\* the endpoint kind ran into the ceiling of its acceptance wait: the
\* function returned that error and never reached node or identity
C21_Witness ==
    /\ ccrdPc = "returned"
    /\ ccrdRet = ErrWaitTimeout
    /\ Len(reconciled) = 2
    /\ reconciled[1].ret = Nil
    /\ identityAllocationMode = IdentityAllocationModeCRD

\* ------------------------------------------------------------------------
\* A reconciler and a cancellation signal sent to its process
\* ------------------------------------------------------------------------

\* the signal fires. createUpdateCRD takes no context and no stop channel,
\* and wait.Poll is given none: no statement of the call reads the signal
Cancel ==
    /\ ~cancelled
    /\ cancelled' = TRUE
    /\ UNCHANGED <<recVars, nuVars, ruleVars, ccrdPc, identityAllocationMode,
                   reconciled, ccrdRet>>

NextCancel ==
    \/ Invoke(1)
    \/ Step(1)
    \/ SetConditions
    \/ Cancel

SpecCancel == Init /\ [][NextCancel]_vars

\* the positions at which a wait.Poll is about to call its condition
PollPositions == {"upd_get", "wait"}

\* the positions inside the two poll loops
InPoll == {"upd_get", "upd_put", "wait"}

\* C22 (as stated): once the cancellation signal has fired, a poll loop that
\* comes to its next condition call stops instead: the call leaves the loop
\* with an error, without going on to the ceiling, and the error it carries
\* to the caller is not the timeout error.
C22_CancelStopsPolls ==
    [][\A p \in Procs :
          cancelled /\ pc[p] \in PollPositions /\ hist'[p] # hist[p] =>
              /\ pc'[p] \notin InPoll
              /\ err'[p] # Nil \/ ret'[p] # Nil
              /\ err'[p] # ErrWaitTimeout
              /\ ~Contains(ret'[p], ErrWaitTimeout)]_vars

\* ------------------------------------------------------------------------
\* Specification of needsUpdate on its own
\* ------------------------------------------------------------------------

\* the characters the enumerated labels are made of
LabelChars == {"0", "1", "4", "5", "6", ".", "a", "-", "v"}

\* longer labels of interest, beyond the enumerated length
NamedLabels ==
    { <<"1", ".", "1", "5", ".", "0">>, <<"1", ".", "1", "5", ".", "1">>,
      <<"1", ".", "1", "4", ".", "9">>, <<"1", ".", "1", "5", "a">>,
      <<"1", ".", "1", "5", "-", "r", "c", "1">>, <<"v", "1", ".", "1", "5">>,
      <<"v", "1", ".", "1", "4">>, <<"1", ".", "1", "0", "0">>,
      <<"1", ".", "1", "5", ".">>, <<"1", ".", ".", "1", "5">>,
      <<"1", ".", "1", "5", ".", "0", ".", "0">>, <<"1", "_", "1", "5">>,
      <<"a", "b", "c">> }

EnumeratedLabels ==
    UNION {[1..n -> LabelChars] : n \in 0..MaxLabelLen}

InitNU ==
    /\ nuCRD \in {[labels |-> l, spec |-> [names |-> "policy", validation |-> v]] :
                     l \in {{}} \cup {LabelOf(x) : x \in EnumeratedLabels \cup NamedLabels},
                     v \in BOOLEAN}
    /\ nuResult = "unset"
    /\ kind = "policy"
    /\ store = Absent
    /\ RecIdle
    /\ StartIdle
    /\ RuleIdle

\* one call of needsUpdate on the descriptor
CallNeedsUpdate ==
    /\ nuResult = "unset"
    /\ nuResult' = IF needsUpdate(nuCRD) THEN "true" ELSE "false"
    /\ UNCHANGED <<nuCRD, recVars, ruleVars, startVars>>

NextNU == CallNeedsUpdate

SpecNU == InitNU /\ [][NextNU]_vars

\* --- the reading of a label as a semantic version that C8 is stated in ---

\* one step of a left-to-right reading of the label: q is the position in
\* the shape  number ("." number)* [pre-release], segs the numbers read so
\* far, cur the number being read
ReadChar(st, c) ==
    CASE st.q \in {"start", "dot"} ->
             IF c \in Digits
             THEN [q |-> "num", segs |-> st.segs, cur |-> DigitVal(c)]
             ELSE [st EXCEPT !.q = "bad"]
      [] st.q = "num" ->
             IF c \in Digits
             THEN [st EXCEPT !.cur = 10 * @ + DigitVal(c)]
             ELSE IF c = "."
             THEN [q |-> "dot", segs |-> Append(st.segs, st.cur), cur |-> 0]
             ELSE IF c \in Letters \cup {"-"}
             THEN [q |-> "pre", segs |-> Append(st.segs, st.cur), cur |-> 0]
             ELSE [st EXCEPT !.q = "bad"]
      [] st.q \in {"pre", "predot"} ->
             IF c \in Letters \cup Digits \cup {"-"} THEN [st EXCEPT !.q = "pre"]
             ELSE IF c = "." /\ st.q = "pre" THEN [st EXCEPT !.q = "predot"]
             ELSE [st EXCEPT !.q = "bad"]
      [] OTHER -> st

RECURSIVE ReadLabel(_, _, _)
ReadLabel(s, i, st) ==
    IF i > Len(s) THEN st ELSE ReadLabel(s, i + 1, ReadChar(st, s[i]))

Reading(s) ==
    ReadLabel(s, IF s # <<>> /\ s[1] = "v" THEN 2 ELSE 1,
              [q |-> "start", segs |-> <<>>, cur |-> 0])

IsSemanticVersion(s) == Reading(s).q \in {"num", "pre"}

SegmentAt(segs, i) == IF i <= Len(segs) THEN segs[i] ELSE 0

\* the version read from s is strictly less than 1.15
BelowExpected(s) ==
    LET st == Reading(s)
        segs == IF st.q = "num" THEN Append(st.segs, st.cur) ELSE st.segs
    IN  \/ SegmentAt(segs, 1) < 1
        \/ SegmentAt(segs, 1) = 1 /\ SegmentAt(segs, 2) < 15
        \/ /\ SegmentAt(segs, 1) = 1 /\ SegmentAt(segs, 2) = 15
           /\ \A i \in 3..Len(segs) : segs[i] = 0
           /\ st.q = "pre"

ExpectedNeedsUpdate(crd) ==
    \/ ~crd.spec.validation
    \/ crd.labels = {}
    \/ \E kv \in crd.labels :
           ~IsSemanticVersion(kv[2]) \/ BelowExpected(kv[2])

Labelled(crd, v) == crd.spec.validation /\ crd.labels = LabelOf(v)

\* C8: needsUpdate returns true exactly when the descriptor has no
\* validation schema, or no schema-version label, or a label that is not a
\* version, or a label that is a version strictly less than 1.15; so 1.14
\* and "abc" need update and 1.15 and 1.16 are current.
C8_NeedsUpdateExactly ==
    nuResult # "unset" =>
        /\ (nuResult = "true") <=> ExpectedNeedsUpdate(nuCRD)
        /\ Labelled(nuCRD, <<"1", ".", "1", "4">>) => nuResult = "true"
        /\ Labelled(nuCRD, <<"a", "b", "c">>) => nuResult = "true"
        /\ Labelled(nuCRD, <<"1", ".", "1", "5">>) => nuResult = "false"
        /\ Labelled(nuCRD, <<"1", ".", "1", "6">>) => nuResult = "false"
        /\ nuCRD.labels = {} => nuResult = "true"
        /\ ~nuCRD.spec.validation => nuResult = "true"

C8_Witness ==
    /\ nuResult = "false"
    /\ Labelled(nuCRD, <<"1", ".", "1", "6">>)

\* ------------------------------------------------------------------------
\* The rule model: Rule structs and the backing arrays of their slices
\* ------------------------------------------------------------------------

\* the address of the receiver r
Receiver == 1

\* the callers of CreateDerivative on the receiver
Callers == {1, 2}

EntryKinds == {"plain", "groups", "failing"}

\* the egress entries: plain ones need no derivation, the others derive from
\* a group lookup that succeeds or fails
EgressEntries == {[kind |-> k, to |-> t] : k \in EntryKinds, t \in {"a", "b"}}

\* EgressRule.RequiresDerivative: what one entry reports
EntryRequiresDerivative(e) == e.kind # "plain"

\* EgressRule.CreateDerivative: a fallible transform of one entry that leaves
\* the entry alone
DeriveEntry(e) ==
    CASE e.kind = "plain" -> [rule |-> e, err |-> Nil]
      [] e.kind = "groups" -> [rule |-> [kind |-> "cidr", to |-> e.to], err |-> Nil]
      [] OTHER -> [rule |-> [kind |-> "empty", to |-> "none"],
                   err |-> <<"derivation failed", e.to>>]

\* the value a Rule struct stands for, its slices followed
RuleValue(a) ==
    [selector |-> arrays[heap[a].EndpointSelector],
     ingress |-> arrays[heap[a].Ingress],
     egress |-> arrays[heap[a].Egress],
     labels |-> arrays[heap[a].Labels],
     description |-> heap[a].Description]

\* Rule.RequiresDerivative: the range loop over r.Egress from entry i on,
\* returning at the first entry that reports true
RequiresDerivativeFirstOnly(egress, i) ==
    IF i > Len(egress) THEN FALSE
    ELSE EntryRequiresDerivative(egress[i])

RECURSIVE RequiresDerivativeFrom(_, _)
RequiresDerivativeFrom(egress, i) ==
    IF i > Len(egress) THEN FALSE
    ELSE IF EntryRequiresDerivative(egress[i]) THEN TRUE
    ELSE RequiresDerivativeFrom(egress, i + 1)

\* the rules with a single caller of CreateDerivative
RuleInputs(sels, ings, labs, descs, egrs) ==
    \E sel \in sels, ing \in ings, lab \in labs, d \in descs, egr \in egrs :
        /\ arrays = <<sel, ing, egr, lab>>
        /\ heap = <<[EndpointSelector |-> 1, Ingress |-> 2, Egress |-> 3,
                     Labels |-> 4, Description |-> d]>>
        /\ before = [selector |-> sel, ingress |-> ing, egress |-> egr,
                     labels |-> lab, description |-> d]

\* the rules CreateDerivative is called on
InitRule ==
    /\ RuleInputs({<<"app=foo">>, <<>>}, {<<>>, <<"from-bar">>},
                  {<<>>, <<"l1", "l1">>}, {"", "text"},
                  UNION {[1..n -> EgressEntries] : n \in 0..MaxEgress})
    /\ rpc = [c \in Callers |-> IF c = 1 THEN "copy" ELSE "off"]
    /\ idx = [c \in Callers |-> 0]
    /\ newRule = [c \in Callers |-> 0]
    /\ result = [c \in Callers |-> [rule |-> 0, err |-> Nil]]
    /\ rdResult = "unset"
    /\ mutated = {}
    /\ kind = "policy"
    /\ store = Absent
    /\ RecIdle
    /\ StartIdle
    /\ NUIdle

\* a call of r.RequiresDerivative(), made while no derivation is running
CallRequiresDerivative ==
    /\ rdResult = "unset"
    /\ \A c \in Callers : rpc[c] \in {"off", "copy", "done"}
    /\ rdResult' = IF RequiresDerivativeFrom(arrays[heap[Receiver].Egress], 1)
                   THEN "true" ELSE "false"
    /\ UNCHANGED <<heap, arrays, rpc, idx, newRule, result, before, mutated,
                   recVars, nuVars, startVars>>

\* r.DeepCopy(): a new struct whose slices have backing arrays of their own
DeepCopy(c) ==
    /\ rpc[c] = "copy"
    /\ LET n == Len(arrays)
           src == heap[Receiver]
       IN  /\ arrays' = arrays \o <<arrays[src.EndpointSelector], arrays[src.Ingress],
                                    arrays[src.Egress], arrays[src.Labels]>>
           /\ heap' = Append(heap, [EndpointSelector |-> n + 1, Ingress |-> n + 2,
                                    Egress |-> n + 3, Labels |-> n + 4,
                                    Description |-> src.Description])
    /\ newRule' = [newRule EXCEPT ![c] = Len(heap) + 1]
    /\ rpc' = [rpc EXCEPT ![c] = "clear"]
    /\ UNCHANGED <<idx, result, before, rdResult, mutated, recVars, nuVars, startVars>>

\* newRule.Egress = []EgressRule{}
ClearEgressOfReceiver(c) ==
    /\ rpc[c] = "clear"
    /\ arrays' = Append(arrays, <<>>)
    /\ heap' = [heap EXCEPT ![Receiver].Egress = Len(arrays) + 1]
    /\ rpc' = [rpc EXCEPT ![c] = "loop"]
    /\ idx' = [idx EXCEPT ![c] = 1]
    /\ UNCHANGED <<newRule, result, before, rdResult, mutated, recVars, nuVars, startVars>>

ClearEgress(c) ==
    /\ rpc[c] = "clear"
    /\ arrays' = Append(arrays, <<>>)
    /\ heap' = [heap EXCEPT ![newRule[c]].Egress = Len(arrays) + 1]
    /\ rpc' = [rpc EXCEPT ![c] = "loop"]
    /\ idx' = [idx EXCEPT ![c] = 1]
    /\ UNCHANGED <<newRule, result, before, rdResult, mutated, recVars, nuVars, startVars>>

\* one turn of the range loop over r.Egress: derive the entry, return on its
\* error, append its derivative otherwise
DeriveNextSkippingFailed(c) ==
    /\ rpc[c] = "loop"
    /\ idx[c] <= Len(arrays[heap[Receiver].Egress])
    /\ LET egressRule == arrays[heap[Receiver].Egress][idx[c]]
           d == DeriveEntry(egressRule)
           last == idx[c] = Len(arrays[heap[Receiver].Egress])
       IN  /\ arrays' = IF d.err # Nil THEN arrays
                        ELSE [arrays EXCEPT ![heap[newRule[c]].Egress] =
                                                Append(@, d.rule)]
           /\ rpc' = [rpc EXCEPT ![c] = IF d.err # Nil /\ last THEN "done" ELSE "loop"]
           /\ result' = [result EXCEPT ![c] =
                            IF d.err # Nil /\ last
                            THEN [rule |-> newRule[c], err |-> d.err] ELSE @]
    /\ idx' = [idx EXCEPT ![c] = @ + 1]
    /\ UNCHANGED <<heap, newRule, before, rdResult, mutated, recVars, nuVars, startVars>>

DeriveNext(c) ==
    /\ rpc[c] = "loop"
    /\ idx[c] <= Len(arrays[heap[Receiver].Egress])
    /\ LET egressRule == arrays[heap[Receiver].Egress][idx[c]]
           d == DeriveEntry(egressRule)
       IN  IF d.err # Nil
           THEN /\ rpc' = [rpc EXCEPT ![c] = "done"]
                /\ result' = [result EXCEPT ![c] = [rule |-> newRule[c], err |-> d.err]]
                /\ UNCHANGED <<arrays, idx>>
           ELSE /\ arrays' = [arrays EXCEPT ![heap[newRule[c]].Egress] =
                                                Append(@, d.rule)]
                /\ idx' = [idx EXCEPT ![c] = @ + 1]
                /\ UNCHANGED <<rpc, result>>
    /\ UNCHANGED <<heap, newRule, before, rdResult, mutated, recVars, nuVars, startVars>>

\* the loop is over: return newRule, nil
ReturnDerivativeOfReceiver(c) ==
    /\ rpc[c] = "loop"
    /\ idx[c] > Len(arrays[heap[Receiver].Egress])
    /\ rpc' = [rpc EXCEPT ![c] = "done"]
    /\ result' = [result EXCEPT ![c] = [rule |-> Receiver, err |-> Nil]]
    /\ UNCHANGED <<heap, arrays, idx, newRule, before, rdResult, mutated,
                   recVars, nuVars, startVars>>

ReturnDerivative(c) ==
    /\ rpc[c] = "loop"
    /\ idx[c] > Len(arrays[heap[Receiver].Egress])
    /\ rpc' = [rpc EXCEPT ![c] = "done"]
    /\ result' = [result EXCEPT ![c] = [rule |-> newRule[c], err |-> Nil]]
    /\ UNCHANGED <<heap, arrays, idx, newRule, before, rdResult, mutated,
                   recVars, nuVars, startVars>>

NextRule ==
    \/ CallRequiresDerivative
    \/ \E c \in Callers : DeepCopy(c)
    \/ \E c \in Callers : ClearEgress(c)
    \/ \E c \in Callers : DeriveNext(c)
    \/ \E c \in Callers : ReturnDerivative(c)

SpecRule == InitRule /\ [][NextRule]_vars

\* C9: CreateDerivative does not mutate its receiver, whether it succeeds or
\* fails: at every point of the call and after it, the selector, ingress
\* list, egress list, labels and description of r equal their values before
\* the call.
C9_ReceiverUnchanged ==
    \A c \in Callers : rpc[c] # "off" => RuleValue(Receiver) = before

C9_Witness ==
    /\ rpc[1] = "done"
    /\ result[1].err # Nil
    /\ Len(before.egress) = 3
    /\ Len(RuleValue(result[1].rule).egress) = 2
    /\ before.ingress # <<>>

\* the index of the first source egress entry whose derivation fails, or one
\* past the last entry when none fails
FirstFailing(egr) ==
    IF \E i \in 1..Len(egr) : DeriveEntry(egr[i]).err # Nil
    THEN CHOOSE i \in 1..Len(egr) :
             /\ DeriveEntry(egr[i]).err # Nil
             /\ \A j \in 1..(i - 1) : DeriveEntry(egr[j]).err = Nil
    ELSE Len(egr) + 1

\* C10: the returned rule's egress list is the derivations, in source order,
\* of the source entries before the first failing one; without a failing
\* entry it has one entry per source entry and the error is nil, with a first
\* failing entry at position i it has the i-1 entries before it, the error is
\* that entry's error, and no later entry is derived.
C10_EgressIsDerivedPrefix ==
    \A c \in Callers :
        rpc[c] = "done" =>
            LET f == FirstFailing(before.egress)
                out == RuleValue(result[c].rule).egress
            IN  /\ out = [i \in 1..(f - 1) |-> DeriveEntry(before.egress[i]).rule]
                /\ idx[c] = f
                /\ result[c].err = IF f > Len(before.egress) THEN Nil
                                   ELSE DeriveEntry(before.egress[f]).err
                /\ result[c].rule # Receiver

C10_Witness ==
    /\ rpc[1] = "done"
    /\ Len(before.egress) = 3
    /\ FirstFailing(before.egress) = 2
    /\ before.egress[1].kind = "groups"
    /\ Len(RuleValue(result[1].rule).egress) = 1
    /\ result[1].err = <<"derivation failed", before.egress[2].to>>

\* C11: RequiresDerivative returns true if and only if at least one egress
\* entry of the rule reports derivation-required; it returns false for a rule
\* with an empty egress list, and the result is a function of the egress list
\* alone, whatever the ingress list is.
C11_RequiresDerivativeIffSomeEntry ==
    rdResult # "unset" =>
        /\ (rdResult = "true") <=>
               \E i \in 1..Len(before.egress) :
                   EntryRequiresDerivative(before.egress[i])
        /\ before.egress = <<>> => rdResult = "false"

C11_Witness ==
    /\ rdResult = "true"
    /\ Len(before.egress) = 3
    /\ ~EntryRequiresDerivative(before.egress[1])
    /\ ~EntryRequiresDerivative(before.egress[2])
    /\ EntryRequiresDerivative(before.egress[3])
    /\ before.ingress # <<>>

\* ------------------------------------------------------------------------
\* Two callers deriving from one source, and later writes to the rules
\* ------------------------------------------------------------------------

\* the egress lists of the shared source rule
SharedEgress ==
    UNION {[1..n -> {e \in EgressEntries : e.to = "a"}] : n \in 0..MaxEgress}

InitShare ==
    /\ \/ RuleInputs({<<"app=foo">>}, {<<"from-bar">>}, {<<"l1", "l1">>},
                     {"text"}, SharedEgress)
       \/ RuleInputs({<<>>}, {<<>>}, {<<>>}, {""}, SharedEgress)
    /\ rpc = [c \in Callers |-> "copy"]
    /\ idx = [c \in Callers |-> 0]
    /\ newRule = [c \in Callers |-> 0]
    /\ result = [c \in Callers |-> [rule |-> 0, err |-> Nil]]
    /\ rdResult = "unset"
    /\ mutated = {}
    /\ kind = "policy"
    /\ store = Absent
    /\ RecIdle
    /\ StartIdle
    /\ NUIdle

\* the rules a caller holds once its call has returned
Returned2(c) == rpc[c] = "done"

\* the holder of rule a writes through every mutable field of it: into the
\* backing arrays of its selector, ingress list and labels, and its
\* description. The source is written only while no call reads it.
Mutate(a) ==
    /\ a \notin mutated
    /\ \/ a = Receiver /\ \A c \in Callers : Returned2(c)
       \/ \E c \in Callers : Returned2(c) /\ result[c].rule = a
    /\ arrays' = [i \in DOMAIN arrays |->
                     IF i \in {heap[a].EndpointSelector, heap[a].Ingress,
                               heap[a].Labels}
                     THEN Append(arrays[i], "changed") ELSE arrays[i]]
    /\ heap' = [heap EXCEPT ![a].Description = "changed"]
    /\ mutated' = mutated \cup {a}
    /\ UNCHANGED <<rpc, idx, newRule, result, before, rdResult, recVars, nuVars, startVars>>

NextShare ==
    \/ \E c \in Callers : DeepCopy(c)
    \/ \E c \in Callers : ClearEgress(c)
    \/ \E c \in Callers : DeriveNext(c)
    \/ \E c \in Callers : ReturnDerivative(c)
    \/ \E a \in DOMAIN heap : Mutate(a)

SpecShare == InitShare /\ [][NextShare]_vars

\* the fields of a rule that a derivative takes over from its source
CopiedFields(v) ==
    [selector |-> v.selector, ingress |-> v.ingress, labels |-> v.labels,
     description |-> v.description]

\* C12: a derivative shares no mutable structure with its source or with
\* another derivative of the same source: whatever is written later to the
\* selector, ingress list, labels or description of the source or of a
\* derivative, every other of these rules still shows the values of the
\* source at clone time, and two concurrent callers get distinct rules,
\* neither of which is the source.
C12_NoSharedStructure ==
    /\ Receiver \notin mutated =>
           CopiedFields(RuleValue(Receiver)) = CopiedFields(before)
    /\ \A c \in Callers :
           Returned2(c) =>
               /\ result[c].rule # Receiver
               /\ result[c].rule \notin mutated =>
                      CopiedFields(RuleValue(result[c].rule)) = CopiedFields(before)
               /\ \A d \in Callers \ {c} :
                      Returned2(d) => result[d].rule # result[c].rule

C12_Witness ==
    /\ Returned2(1) /\ Returned2(2)
    /\ mutated = {Receiver, result[1].rule}
    /\ before.labels # <<>>
    /\ RuleValue(Receiver).labels # before.labels
    /\ RuleValue(result[1].rule).ingress # before.ingress
    /\ CopiedFields(RuleValue(result[2].rule)) = CopiedFields(before)

====
